---- MODULE Spec2Model ----
(***************************************************************************)
(* In-memory cache with TTL expiry and LRU eviction under a byte budget.   *)
(* State machine of class InMemoryCache (with LRUList / LRUNode), one      *)
(* action per public method plus the periodic sweep and the clock.         *)
(* Strings are sequences of one-character strings, buffers are sequences   *)
(* of byte values, and null is the empty sequence.                         *)
(***************************************************************************)
EXTENDS Integers, Sequences, FiniteSets, TLC

VARIABLES
    store,      \* Map<string, CacheEntry>: fullKey -> [value, expiresAt, lruNode, size]
    lru,        \* the LRUList: [head, tail] plus the prev/next links of its nodes
    usedBytes,  \* current used bytes
    sweeper,    \* TRUE while the interval timer of the sweeper is armed
    now,        \* the value Date.now() returns
    call,       \* the last event: the operation invoked and its arguments, or a clock tick
    ret,        \* what that operation returned; history: what set evicted, how many entries a
                \* sweep removed, what the lookup of set/get/has found
    lastSet,    \* history: per (ns, key) pair, the entry its latest set wrote, while that entry lives
    recent      \* history: live identities by last successful get/set, most recent first

vars == <<store, lru, usedBytes, sweeper, now, call, ret, lastSet, recent>>

\* ------------------------------------------------------------------ bounds
MaxTime == 2

\* ------------------------------------------------------------------ inputs
NULL == <<>>

\* construction option maxBytes, as the eviction test configures it
maxBytes == 10

\* namespaces and keys the operations are called with; "a:b" extends "a" by the
\* separator, and ("a", "b:k") and ("a:b", "k") concatenate to the same string
Namespaces == { <<"a">>, <<"a", ":", "b">>, <<"n">> }

Keys == { <<"k">> }

\* pairs that concatenate to the same composite key "a:b:k", and one that does not
CollidingPairs ==
    { << <<"a">>, <<"b", ":", "k">> >>, << <<"a", ":", "b">>, <<"k">> >>, << <<"a">>, <<"k">> >> }

Pairs == (Namespaces \X Keys) \cup CollidingPairs

\* opts.ttlMs: <<>> is an absent option, <<t>> the option set to t
TtlOptions == { <<>>, <<0>>, <<-1>>, <<1>> }

\* a JSON tree: t is the node type, n a number, s a string (code points), kids its children
JNode(t, n, s, kids) == [t |-> t, n |-> n, s |-> s, kids |-> kids]

JNull == JNode("null", 0, <<>>, <<>>)

\* the object {a: 1}
ObjA1 == JNode("object", 0, <<>>, << JNode("member", 0, <<97>>, << JNode("number", 1, <<>>, <<>>) >>) >>)

\* a value handed to set: a Buffer (bytes), a string (code points) or an object (json)
BufferValue(b) == [kind |-> "buffer", bytes |-> b, text |-> <<>>, json |-> JNull]

StringValue(s) == [kind |-> "string", bytes |-> <<>>, text |-> s, json |-> JNull]

ObjectValue(j) == [kind |-> "object", bytes |-> <<>>, text |-> <<>>, json |-> j]

NoValue == [kind |-> "none", bytes |-> <<>>, text |-> <<>>, json |-> JNull]

Values ==
    { StringValue(<<233>>),                         \* "e" with acute accent, two bytes in UTF-8
      StringValue(<<49, 50, 51, 52, 53>>),          \* "12345"
      ObjectValue(ObjA1),                           \* {a: 1}, seven bytes as JSON
      BufferValue(<<1, 2, 3, 4, 5, 6, 7, 8, 9, 10, 11>>) }  \* raw bytes, more than maxBytes

SmallValues == { StringValue(<<233>>), StringValue(<<49, 50, 51, 52, 53>>) }

SmallTtlOptions == { <<>>, <<1>> }

\* ------------------------------------------------------- value normalisation
\* UTF-8 encoding of one code point (below 0x10000)
Utf8Char(cp) ==
    IF cp < 128 THEN << cp >>
    ELSE IF cp < 2048 THEN << 192 + (cp \div 64), 128 + (cp % 64) >>
    ELSE << 224 + (cp \div 4096), 128 + ((cp \div 64) % 64), 128 + (cp % 64) >>

RECURSIVE Utf8(_)
Utf8(s) == IF s = <<>> THEN <<>> ELSE Utf8Char(Head(s)) \o Utf8(Tail(s))

RECURSIVE Decimal(_)
Decimal(n) == IF n < 10 THEN << 48 + n >> ELSE Decimal(n \div 10) \o << 48 + (n % 10) >>

RECURSIVE JSONstringify(_)
RECURSIVE JoinKids(_)
JoinKids(kids) ==
    IF kids = <<>> THEN <<>>
    ELSE IF Len(kids) = 1 THEN JSONstringify(kids[1])
    ELSE JSONstringify(kids[1]) \o <<44>> \o JoinKids(Tail(kids))

\* JSON.stringify on the tree, as code points
JSONstringify(j) ==
    CASE j.t = "null"   -> <<110, 117, 108, 108>>
      [] j.t = "number" -> Decimal(j.n)
      [] j.t = "string" -> <<34>> \o j.s \o <<34>>
      [] j.t = "member" -> <<34>> \o j.s \o <<34, 58>> \o JSONstringify(j.kids[1])
      [] j.t = "array"  -> <<91>> \o JoinKids(j.kids) \o <<93>>
      [] j.t = "object" -> <<123>> \o JoinKids(j.kids) \o <<125>>

\* set's normalisation of the value to a Buffer
Normalize(value) ==
    IF value.kind = "buffer" THEN value.bytes
    ELSE IF value.kind = "string" THEN Utf8(value.text)
    ELSE Utf8(JSONstringify(value.json))

\* ------------------------------------------------------------------ keys
makeFullKey(ns, key) == ns \o <<":">> \o key

FullKeys == { makeFullKey(p[1], p[2]) : p \in Pairs }

\* String.prototype.startsWith
startsWith(s, prefix) ==
    /\ Len(prefix) <= Len(s)
    /\ SubSeq(s, 1, Len(prefix)) = prefix

\* ------------------------------------------------------------------ LRUList
\* an empty list: no head, no tail, every node unlinked
EmptyList ==
    [head |-> NULL, tail |-> NULL,
     prev |-> [f \in FullKeys |-> NULL], next |-> [f \in FullKeys |-> NULL]]

\* faulty variant: detach leaves the successor's prev link pointing at the node
detachNoBackLink(L, node) ==
    LET p == L.prev[node]
        x == L.next[node]
        next1 == IF p # NULL THEN [L.next EXCEPT ![p] = x] ELSE L.next
    IN  [head |-> IF L.head = node THEN x ELSE L.head,
         tail |-> IF L.tail = node THEN p ELSE L.tail,
         prev |-> [L.prev EXCEPT ![node] = NULL],
         next |-> [next1 EXCEPT ![node] = NULL]]

\* unlink node from list
detach(L, node) ==
    LET p == L.prev[node]
        x == L.next[node]
        next1 == IF p # NULL THEN [L.next EXCEPT ![p] = x] ELSE L.next
        prev1 == IF x # NULL THEN [L.prev EXCEPT ![x] = p] ELSE L.prev
    IN  [head |-> IF L.head = node THEN x ELSE L.head,
         tail |-> IF L.tail = node THEN p ELSE L.tail,
         prev |-> [prev1 EXCEPT ![node] = NULL],
         next |-> [next1 EXCEPT ![node] = NULL]]

\* insert node at head, used for new keys
pushFront(L, node) ==
    LET prev1 == [L.prev EXCEPT ![node] = NULL]
        next1 == [L.next EXCEPT ![node] = L.head]
        prev2 == IF L.head # NULL THEN [prev1 EXCEPT ![L.head] = node] ELSE prev1
    IN  [head |-> node,
         tail |-> IF L.tail = NULL THEN node ELSE L.tail,
         prev |-> prev2,
         next |-> next1]

\* if already head do nothing, else detach and insert at head
moveToFront(L, node) ==
    IF L.head = node THEN L
    ELSE LET D == detach(L, node)
             next1 == [D.next EXCEPT ![node] = D.head]
             prev1 == IF D.head # NULL THEN [D.prev EXCEPT ![D.head] = node] ELSE D.prev
         IN  [head |-> node,
              tail |-> IF D.tail = NULL THEN node ELSE D.tail,
              prev |-> prev1,
              next |-> next1]

\* remove and return the least recently used node (NULL when the list is empty)
popBack(L) ==
    IF L.tail = NULL THEN [list |-> L, node |-> NULL]
    ELSE [list |-> detach(L, L.tail), node |-> L.tail]

\* the identities met walking next from head, in order (at most `fuel` of them)
RECURSIVE Walk(_, _, _)
Walk(L, node, fuel) ==
    IF node = NULL \/ fuel = 0 THEN <<>>
    ELSE <<node>> \o Walk(L, L.next[node], fuel - 1)

ListOrder(L) == Walk(L, L.head, Cardinality(FullKeys) + 1)

\* ------------------------------------------------------------------ Map
MapSet(m, k, v) == [f \in DOMAIN m \cup {k} |-> IF f = k THEN v ELSE m[f]]

MapDelete(m, k) == [f \in DOMAIN m \ {k} |-> m[f]]

EmptyMap == [f \in {} |-> NULL]

\* ------------------------------------------------------------------ InMemoryCache
\* the cache's fields as one value: c.store, c.lru, c.usedBytes
Cache(s, l, u) == [store |-> s, lru |-> l, usedBytes |-> u]

\* repeatedly evict least recently used until under budget; `evicted` collects the victims
RECURSIVE evictLoop(_, _)
evictLoop(c, evicted) ==
    IF c.usedBytes > maxBytes
    THEN LET popped == popBack(c.lru)
             victim == popped.node
         IN  IF victim = NULL THEN [c |-> c, evicted |-> evicted]
             ELSE IF victim \notin DOMAIN c.store
                  THEN evictLoop(Cache(c.store, popped.list, c.usedBytes), evicted)
                  ELSE evictLoop(Cache(MapDelete(c.store, victim), popped.list,
                                       c.usedBytes - c.store[victim].size),
                                 Append(evicted, victim))
    ELSE [c |-> c, evicted |-> evicted]

\* faulty variant: eviction spares the last node left in the list
RECURSIVE evictLoopSparing(_, _)
evictLoopSparing(c, evicted) ==
    IF c.usedBytes > maxBytes /\ c.lru.head # c.lru.tail
    THEN LET popped == popBack(c.lru)
             victim == popped.node
         IN  evictLoopSparing(Cache(MapDelete(c.store, victim), popped.list,
                                    c.usedBytes - c.store[victim].size),
                              Append(evicted, victim))
    ELSE [c |-> c, evicted |-> evicted]

evictSparingLast(c) == evictLoopSparing(c, <<>>)

\* faulty variant: an "if" in place of the "while", one victim at most
evictOnce(c) ==
    IF c.usedBytes > maxBytes /\ c.lru.tail # NULL
    THEN LET popped == popBack(c.lru)
             victim == popped.node
         IN  [c |-> Cache(MapDelete(c.store, victim), popped.list,
                          c.usedBytes - c.store[victim].size),
              evicted |-> <<victim>>]
    ELSE [c |-> c, evicted |-> <<>>]

\* faulty variant: the loop tests >= and evicts at exactly the budget too
RECURSIVE evictLoopEager(_, _)
evictLoopEager(c, evicted) ==
    IF c.usedBytes >= maxBytes /\ c.lru.tail # NULL
    THEN LET popped == popBack(c.lru)
             victim == popped.node
         IN  evictLoopEager(Cache(MapDelete(c.store, victim), popped.list,
                                  c.usedBytes - c.store[victim].size),
                            Append(evicted, victim))
    ELSE [c |-> c, evicted |-> evicted]

evictEager(c) == evictLoopEager(c, <<>>)

evictUntilWithinBudget(c) == evictLoop(c, <<>>)

\* faulty variant: the update branch adds the new length instead of the size delta
setNoDelta(c, ns, key, value, opts, t) ==
    LET buf == Normalize(value)
        fullKey == makeFullKey(ns, key)
        ttlMs == IF opts = <<>> THEN 0 ELSE opts[1]
        expiresAt == IF ttlMs > 0 THEN t + ttlMs ELSE 0
        entry == [value |-> buf, expiresAt |-> expiresAt, lruNode |-> fullKey, size |-> Len(buf)]
        written ==
            IF fullKey \in DOMAIN c.store
            THEN Cache(MapSet(c.store, fullKey, entry),
                       moveToFront(c.lru, c.store[fullKey].lruNode),
                       c.usedBytes + Len(buf))
            ELSE Cache(MapSet(c.store, fullKey, entry),
                       pushFront(c.lru, fullKey),
                       c.usedBytes + entry.size)
    IN  evictUntilWithinBudget(written)

\* set(ns, key, value, opts) at time t
\* faulty variant: set drops the expired entries before it enforces the budget
setPurgesExpired(c, ns, key, value, opts, t) ==
    LET buf == Normalize(value)
        fullKey == makeFullKey(ns, key)
        ttlMs == IF opts = <<>> THEN 0 ELSE opts[1]
        expiresAt == IF ttlMs > 0 THEN t + ttlMs ELSE 0
        written ==
            IF fullKey \in DOMAIN c.store
            THEN LET exists == c.store[fullKey]
                     delta == Len(buf) - exists.size
                 IN  Cache(MapSet(c.store, fullKey,
                                  [value |-> buf, expiresAt |-> expiresAt,
                                   lruNode |-> exists.lruNode, size |-> Len(buf)]),
                           moveToFront(c.lru, exists.lruNode),
                           c.usedBytes + delta)
            ELSE LET entry == [value |-> buf, expiresAt |-> expiresAt,
                               lruNode |-> fullKey, size |-> Len(buf)]
                 IN  Cache(MapSet(c.store, fullKey, entry),
                           pushFront(c.lru, fullKey),
                           c.usedBytes + entry.size)
        expired == { f \in DOMAIN written.store :
                       written.store[f].expiresAt > 0 /\ written.store[f].expiresAt <= t }
        RECURSIVE purge(_, _)
        purge(w, pending) ==
            IF pending = {} THEN w
            ELSE LET f == CHOOSE g \in pending : TRUE
                 IN  purge(Cache(MapDelete(w.store, f), detach(w.lru, f),
                                 w.usedBytes - w.store[f].size),
                           pending \ {f})
    IN  evictUntilWithinBudget(purge(written, expired))

\* faulty variant: the update branch keeps the expiry time of the entry it replaces
setKeepsExpiry(c, ns, key, value, opts, t) ==
    LET buf == Normalize(value)
        fullKey == makeFullKey(ns, key)
        ttlMs == IF opts = <<>> THEN 0 ELSE opts[1]
        expiresAt == IF ttlMs > 0 THEN t + ttlMs ELSE 0
        written ==
            IF fullKey \in DOMAIN c.store
            THEN LET exists == c.store[fullKey]
                     delta == Len(buf) - exists.size
                 IN  Cache(MapSet(c.store, fullKey,
                                  [value |-> buf, expiresAt |-> exists.expiresAt,
                                   lruNode |-> exists.lruNode, size |-> Len(buf)]),
                           moveToFront(c.lru, exists.lruNode),
                           c.usedBytes + delta)
            ELSE LET entry == [value |-> buf, expiresAt |-> expiresAt,
                               lruNode |-> fullKey, size |-> Len(buf)]
                 IN  Cache(MapSet(c.store, fullKey, entry),
                           pushFront(c.lru, fullKey),
                           c.usedBytes + entry.size)
    IN  evictUntilWithinBudget(written)

set(c, ns, key, value, opts, t) ==
    LET buf == Normalize(value)
        fullKey == makeFullKey(ns, key)
        ttlMs == IF opts = <<>> THEN 0 ELSE opts[1]
        expiresAt == IF ttlMs > 0 THEN t + ttlMs ELSE 0
        written ==
            IF fullKey \in DOMAIN c.store
            THEN LET exists == c.store[fullKey]
                     delta == Len(buf) - exists.size
                 IN  Cache(MapSet(c.store, fullKey,
                                  [value |-> buf, expiresAt |-> expiresAt,
                                   lruNode |-> exists.lruNode, size |-> Len(buf)]),
                           moveToFront(c.lru, exists.lruNode),
                           c.usedBytes + delta)
            ELSE LET entry == [value |-> buf, expiresAt |-> expiresAt,
                               lruNode |-> fullKey, size |-> Len(buf)]
                 IN  Cache(MapSet(c.store, fullKey, entry),
                           pushFront(c.lru, fullKey),
                           c.usedBytes + entry.size)
    IN  evictUntilWithinBudget(written)

\* faulty variant: the entry leaves the table but its node stays in the list
deleteNoDetach(c, ns, key) ==
    LET fullKey == makeFullKey(ns, key)
    IN  IF fullKey \notin DOMAIN c.store THEN [c |-> c, ok |-> FALSE]
        ELSE [c |-> Cache(MapDelete(c.store, fullKey), c.lru,
                          c.usedBytes - c.store[fullKey].size),
              ok |-> TRUE]

\* faulty variant: no early return for a missing key; the list is touched and true returned
deleteNoGuard(c, ns, key) ==
    LET fullKey == makeFullKey(ns, key)
    IN  IF fullKey \notin DOMAIN c.store
        THEN [c |-> Cache(c.store, detach(c.lru, fullKey), c.usedBytes), ok |-> TRUE]
        ELSE LET entry == c.store[fullKey]
             IN  [c |-> Cache(MapDelete(c.store, fullKey),
                              detach(c.lru, entry.lruNode),
                              c.usedBytes - entry.size),
                  ok |-> TRUE]

\* delete(ns, key): ok is the boolean returned
delete(c, ns, key) ==
    LET fullKey == makeFullKey(ns, key)
    IN  IF fullKey \notin DOMAIN c.store THEN [c |-> c, ok |-> FALSE]
        ELSE LET entry == c.store[fullKey]
             IN  [c |-> Cache(MapDelete(c.store, fullKey),
                              detach(c.lru, entry.lruNode),
                              c.usedBytes - entry.size),
                  ok |-> TRUE]

\* faulty variant: a hit does not mark the entry as recently used
getNoPromote(c, ns, key, t) ==
    LET fullKey == makeFullKey(ns, key)
    IN  IF fullKey \notin DOMAIN c.store THEN [c |-> c, ok |-> FALSE, value |-> NULL]
        ELSE LET entry == c.store[fullKey]
             IN  IF entry.expiresAt > 0 /\ entry.expiresAt <= t
                 THEN [c |-> delete(c, ns, key).c, ok |-> FALSE, value |-> NULL]
                 ELSE [c |-> c, ok |-> TRUE, value |-> entry.value]

\* get(ns, key) at time t: ok is FALSE for a null result, value the Buffer returned
get(c, ns, key, t) ==
    LET fullKey == makeFullKey(ns, key)
    IN  IF fullKey \notin DOMAIN c.store THEN [c |-> c, ok |-> FALSE, value |-> NULL]
        ELSE LET entry == c.store[fullKey]
             IN  IF entry.expiresAt > 0 /\ entry.expiresAt <= t
                 THEN [c |-> delete(c, ns, key).c, ok |-> FALSE, value |-> NULL]
                 ELSE [c |-> Cache(c.store, moveToFront(c.lru, entry.lruNode), c.usedBytes),
                       ok |-> TRUE, value |-> entry.value]

\* faulty variant: an existence check marks the entry as recently used, as get does
hasPromotes(c, ns, key, t) ==
    LET fullKey == makeFullKey(ns, key)
    IN  IF fullKey \notin DOMAIN c.store THEN [c |-> c, ok |-> FALSE]
        ELSE LET entry == c.store[fullKey]
             IN  IF entry.expiresAt > 0 /\ entry.expiresAt <= t
                 THEN [c |-> delete(c, ns, key).c, ok |-> FALSE]
                 ELSE [c |-> Cache(c.store, moveToFront(c.lru, entry.lruNode), c.usedBytes),
                       ok |-> TRUE]

\* faulty variant: has reports an expired entry as missing and leaves it in the table
hasNoPurge(c, ns, key, t) ==
    LET fullKey == makeFullKey(ns, key)
    IN  IF fullKey \notin DOMAIN c.store THEN [c |-> c, ok |-> FALSE]
        ELSE LET entry == c.store[fullKey]
             IN  IF entry.expiresAt > 0 /\ entry.expiresAt <= t
                 THEN [c |-> c, ok |-> FALSE]
                 ELSE [c |-> c, ok |-> TRUE]

\* has(ns, key) at time t: ok is the boolean returned
has(c, ns, key, t) ==
    LET fullKey == makeFullKey(ns, key)
    IN  IF fullKey \notin DOMAIN c.store THEN [c |-> c, ok |-> FALSE]
        ELSE LET entry == c.store[fullKey]
             IN  IF entry.expiresAt > 0 /\ entry.expiresAt <= t
                 THEN [c |-> delete(c, ns, key).c, ok |-> FALSE]
                 ELSE [c |-> c, ok |-> TRUE]

\* the loop of clearNamespace over store.keys(); `pending` are the keys not yet visited
RECURSIVE clearLoop(_, _, _, _)
clearLoop(c, ns, pending, removed) ==
    IF pending = {} THEN [c |-> c, removed |-> removed]
    ELSE LET fullKey == CHOOSE f \in pending : TRUE
         IN  IF startsWith(fullKey, ns \o <<":">>)
             THEN LET entry == c.store[fullKey]
                  IN  clearLoop(Cache(MapDelete(c.store, fullKey),
                                      detach(c.lru, entry.lruNode),
                                      c.usedBytes - entry.size),
                                ns, pending \ {fullKey}, removed + 1)
             ELSE clearLoop(c, ns, pending \ {fullKey}, removed)

\* clearNamespace(ns): removed is the count returned
clearNamespace(c, ns) == clearLoop(c, ns, DOMAIN c.store, 0)

\* the loop of sweepExpired over the store; `pending` are the entries not yet visited
\* faulty variant: the scan compares with < and spares an entry at its expiry time
RECURSIVE sweepLoopStrict(_, _, _)
sweepLoopStrict(c, t, pending) ==
    IF pending = {} THEN c
    ELSE LET fullKey == CHOOSE f \in pending : TRUE
             entry == c.store[fullKey]
         IN  IF entry.expiresAt > 0 /\ entry.expiresAt < t
             THEN sweepLoopStrict(Cache(MapDelete(c.store, fullKey),
                                        detach(c.lru, entry.lruNode),
                                        c.usedBytes - entry.size),
                                  t, pending \ {fullKey})
             ELSE sweepLoopStrict(c, t, pending \ {fullKey})

sweepStrict(c, t) == sweepLoopStrict(c, t, DOMAIN c.store)

\* faulty variant: the scan stops at the first expired entry it removes
sweepFirst(c, t) ==
    LET expired == { f \in DOMAIN c.store :
                       c.store[f].expiresAt > 0 /\ c.store[f].expiresAt <= t }
    IN  IF expired = {} THEN c
        ELSE LET fullKey == CHOOSE f \in expired : TRUE
                 entry == c.store[fullKey]
             IN  Cache(MapDelete(c.store, fullKey), detach(c.lru, entry.lruNode),
                       c.usedBytes - entry.size)

RECURSIVE sweepLoop(_, _, _)
sweepLoop(c, t, pending) ==
    IF pending = {} THEN c
    ELSE LET fullKey == CHOOSE f \in pending : TRUE
             entry == c.store[fullKey]
         IN  IF entry.expiresAt > 0 /\ entry.expiresAt <= t
             THEN sweepLoop(Cache(MapDelete(c.store, fullKey),
                                  detach(c.lru, entry.lruNode),
                                  c.usedBytes - entry.size),
                            t, pending \ {fullKey})
             ELSE sweepLoop(c, t, pending \ {fullKey})

\* periodic scan that removes expired entries
sweepExpired(c, t) == sweepLoop(c, t, DOMAIN c.store)

\* stats(): a pure read
stats(c) == [keys |-> Cardinality(DOMAIN c.store), usedBytes |-> c.usedBytes, maxBytes |-> maxBytes]

\* ------------------------------------------------------------------ history
NoSet == [live |-> FALSE, value |-> <<>>, expiresAt |-> 0]

\* forget the sets whose entry is no longer in the table
Forget(ls, s) ==
    [p \in Pairs |-> IF makeFullKey(p[1], p[2]) \in DOMAIN s THEN ls[p] ELSE NoSet]

\* identity f becomes the most recently used one
Touch(order, f) == <<f>> \o SelectSeq(order, LAMBDA g : g # f)

\* keep the identities that are still in the table
Live(order, s) == SelectSeq(order, LAMBDA g : g \in DOMAIN s)

\* ------------------------------------------------------------------ actions
Current == Cache(store, lru, usedBytes)

Call(op, ns, key, value, opts) ==
    [op |-> op, ns |-> ns, key |-> key, value |-> value, opts |-> opts]

Ret(ok, value, count, evicted) ==
    [ok |-> ok, value |-> value, count |-> count, evicted |-> evicted,
     prior |-> "none", victimExpired |-> <<>>]

\* history: what the call's lookup store.get(fullKey) found, at time t
Prior(c, ns, key, t) ==
    LET fullKey == makeFullKey(ns, key)
    IN  IF fullKey \notin DOMAIN c.store THEN "none"
        ELSE IF c.store[fullKey].expiresAt > 0 /\ c.store[fullKey].expiresAt <= t THEN "expired"
        ELSE "live"

\* the return record with the history of the call: what its lookup found and, for each
\* victim of its eviction, whether that entry's expiry time had come
Found(r, prior, victimExpired) ==
    [r EXCEPT !.prior = prior, !.victimExpired = victimExpired]

\* state after the constructor: empty table and list, timer armed
Init ==
    /\ store = EmptyMap
    /\ lru = EmptyList
    /\ usedBytes = 0
    /\ sweeper = TRUE
    /\ now = 1
    /\ call = Call("new", NULL, NULL, NoValue, <<>>)
    /\ ret = Ret(FALSE, NULL, 0, <<>>)
    /\ lastSet = [p \in Pairs |-> NoSet]
    /\ recent = <<>>

Install(c) ==
    /\ store' = c.store
    /\ lru' = c.lru
    /\ usedBytes' = c.usedBytes

Set(ns, key, value, opts) ==
    \E r \in {set(Current, ns, key, value, opts, now)} :
    LET fullKey == makeFullKey(ns, key)
        ttlMs == IF opts = <<>> THEN 0 ELSE opts[1]
        wrote == [live |-> TRUE, value |-> Normalize(value),
                  expiresAt |-> IF ttlMs > 0 THEN now + ttlMs ELSE 0]
    IN  /\ Install(r.c)
        /\ call' = Call("set", ns, key, value, opts)
        /\ ret' = Found(Ret(FALSE, NULL, 0, r.evicted), Prior(Current, ns, key, now),
                       [i \in 1..Len(r.evicted) |->
                           LET e == r.evicted[i]
                               exp == IF e = fullKey THEN wrote.expiresAt ELSE store[e].expiresAt
                           IN  exp > 0 /\ exp <= now])
        /\ lastSet' = Forget([lastSet EXCEPT ![<<ns, key>>] = wrote], r.c.store)
        /\ recent' = Live(Touch(recent, fullKey), r.c.store)
        /\ UNCHANGED <<sweeper, now>>

Get(ns, key) ==
    \E r \in {get(Current, ns, key, now)} :
        /\ Install(r.c)
        /\ call' = Call("get", ns, key, NoValue, <<>>)
        /\ ret' = Found(Ret(r.ok, r.value, 0, <<>>), Prior(Current, ns, key, now), <<>>)
        /\ lastSet' = Forget(lastSet, r.c.store)
        /\ recent' = IF r.ok THEN Touch(recent, makeFullKey(ns, key))
                     ELSE Live(recent, r.c.store)
        /\ UNCHANGED <<sweeper, now>>

Has(ns, key) ==
    \E r \in {has(Current, ns, key, now)} :
        /\ Install(r.c)
        /\ call' = Call("has", ns, key, NoValue, <<>>)
        /\ ret' = Found(Ret(r.ok, NULL, 0, <<>>), Prior(Current, ns, key, now), <<>>)
        /\ lastSet' = Forget(lastSet, r.c.store)
        /\ recent' = Live(recent, r.c.store)
        /\ UNCHANGED <<sweeper, now>>

Delete(ns, key) ==
    \E r \in {delete(Current, ns, key)} :
        /\ Install(r.c)
        /\ call' = Call("delete", ns, key, NoValue, <<>>)
        /\ ret' = Ret(r.ok, NULL, 0, <<>>)
        /\ lastSet' = Forget(lastSet, r.c.store)
        /\ recent' = Live(recent, r.c.store)
        /\ UNCHANGED <<sweeper, now>>

ClearNamespace(ns) ==
    \E r \in {clearNamespace(Current, ns)} :
        /\ Install(r.c)
        /\ call' = Call("clearNamespace", ns, NULL, NoValue, <<>>)
        /\ ret' = Ret(FALSE, NULL, r.removed, <<>>)
        /\ lastSet' = Forget(lastSet, r.c.store)
        /\ recent' = Live(recent, r.c.store)
        /\ UNCHANGED <<sweeper, now>>

\* one firing of the interval timer
Sweep ==
    /\ sweeper
    /\ \E c \in {sweepExpired(Current, now)} :
           /\ Install(c)
           /\ lastSet' = Forget(lastSet, c.store)
           /\ recent' = Live(recent, c.store)
           /\ ret' = Ret(FALSE, NULL,
                         Cardinality(DOMAIN store) - Cardinality(DOMAIN c.store), <<>>)
    /\ call' = Call("sweepExpired", NULL, NULL, NoValue, <<>>)
    /\ UNCHANGED <<sweeper, now>>

\* faulty variant: shutdown leaves the interval timer armed
ShutdownNoClear ==
    /\ sweeper' = sweeper
    /\ call' = Call("shutdown", NULL, NULL, NoValue, <<>>)
    /\ ret' = Ret(FALSE, NULL, 0, <<>>)
    /\ UNCHANGED <<store, lru, usedBytes, now, lastSet, recent>>

\* shutdown(): clearInterval on the timer
Shutdown ==
    /\ sweeper' = FALSE
    /\ call' = Call("shutdown", NULL, NULL, NoValue, <<>>)
    /\ ret' = Ret(FALSE, NULL, 0, <<>>)
    /\ UNCHANGED <<store, lru, usedBytes, now, lastSet, recent>>

\* the clock advances between operations
Tick ==
    /\ now < MaxTime
    /\ now' = now + 1
    /\ call' = Call("tick", NULL, NULL, NoValue, <<>>)
    /\ ret' = Ret(FALSE, NULL, 0, <<>>)
    /\ UNCHANGED <<store, lru, usedBytes, sweeper, lastSet, recent>>

\* one operation of the cache, its (ns, key) drawn from PS, its value from VS, its ttl from TS
Step(PS, VS, TS) ==
    \/ \E p \in PS, value \in VS, opts \in TS : Set(p[1], p[2], value, opts)
    \/ \E p \in PS : Get(p[1], p[2])
    \/ \E p \in PS : Has(p[1], p[2])
    \/ \E p \in PS : Delete(p[1], p[2])
    \/ \E p \in PS : ClearNamespace(p[1])
    \/ Sweep
    \/ Tick

Next == Step(Namespaces \X Keys, Values, TtlOptions)

Spec == Init /\ [][Next]_vars

\* the same operations called with pairs that share a composite key
NextColliding == Step(CollidingPairs, SmallValues, SmallTtlOptions)

SpecColliding == Init /\ [][NextColliding]_vars

\* the cache with its sweeper, until and after shutdown: the armed interval timer keeps
\* firing and the clock keeps advancing
SweeperPairs == { << <<"a">>, <<"k">> >>, << <<"n">>, <<"k">> >> }

NextSweeper ==
    \/ Step(SweeperPairs, SmallValues, SmallTtlOptions)
    \/ Shutdown

SpecSweeper == Init /\ [][NextSweeper]_vars /\ WF_vars(Sweep) /\ WF_vars(Tick)

\* ------------------------------------------------------------------ derived
SumSizes == LET RECURSIVE Sum(_)
                Sum(S) == IF S = {} THEN 0
                          ELSE LET f == CHOOSE g \in S : TRUE
                               IN  store[f].size + Sum(S \ {f})
            IN  Sum(DOMAIN store)

TypeOK ==
    /\ DOMAIN store \subseteq FullKeys
    /\ usedBytes \in Int
    /\ now \in 1..MaxTime

\* ------------------------------------------------------------------ properties
Range(seq) == { seq[i] : i \in 1..Len(seq) }

\* r comes before e in the sequence
Before(order, r, e) ==
    \E i, j \in 1..Len(order) : i < j /\ order[i] = r /\ order[j] = e

\* the composite key and the (ns, key) pair of the last call
CallKey == makeFullKey(call.ns, call.key)

CallPair == <<call.ns, call.key>>

CallSize == Len(Normalize(call.value))

Expired(e, t) == e.expiresAt > 0 /\ e.expiresAt <= t

\* C1: usedBytes equals the exact sum of size over all entries in the entry
\* table, in every state between operations.
UsedBytesExact == usedBytes = SumSizes

\* a clearNamespace that removed entries and left others behind
UsedBytesExactWitness ==
    /\ call.op = "clearNamespace"
    /\ ret.count >= 1
    /\ DOMAIN store # {}
    /\ usedBytes > 0

\* C2: the identities of the nodes reachable in the recency list (walking next
\* from head, and prev from tail) are exactly the keys of the entry table, each
\* met once.
RECURSIVE WalkBack(_, _, _)
WalkBack(L, node, fuel) ==
    IF node = NULL \/ fuel = 0 THEN <<>>
    ELSE <<node>> \o WalkBack(L, L.prev[node], fuel - 1)

ListMatchesTable ==
    /\ Range(ListOrder(lru)) = DOMAIN store
    /\ Len(ListOrder(lru)) = Cardinality(DOMAIN store)
    /\ Range(WalkBack(lru, lru.tail, Cardinality(FullKeys) + 1)) = DOMAIN store
    /\ \A f \in DOMAIN store : store[f].lruNode = f

ListMatchesTableWitness ==
    /\ call.op = "delete"
    /\ ret.ok
    /\ Cardinality(DOMAIN store) >= 2

\* C4: when a set evicts, every entry evicted was used (last successful get or
\* set) less recently than every entry that remains in the cache.
LruEvictionOrder ==
    [][ call'.op = "set" =>
            \A e \in Range(ret'.evicted) : \A r \in DOMAIN store' :
                Before(Touch(recent, CallKey'), r, e) ]_vars

LruEvictionOrderWitness ==
    /\ call.op = "set"
    /\ ret.evicted # <<>>
    /\ Cardinality(DOMAIN store) >= 2
    /\ CallKey \in DOMAIN store

\* C5: a has call on an unexpired key changes neither the recency list, the
\* entry table nor usedBytes; and when has(a) found a at the tail, the next set
\* of another key that evicts anything evicts a first.
HasNeverPromotes ==
    [][ /\ (call'.op = "has" /\ ret'.ok) => UNCHANGED <<store, lru, usedBytes>>
        /\ ( /\ call.op = "has" /\ ret.ok /\ lru.tail = CallKey
             /\ call'.op = "set" /\ CallKey' # CallKey
             /\ ret'.evicted # <<>> )
           => ret'.evicted[1] = CallKey ]_vars

\* has(a) answered true with a the least recently used of two entries that fill
\* the budget exactly
HasNeverPromotesWitness ==
    /\ call.op = "has"
    /\ ret.ok
    /\ lru.tail = CallKey
    /\ Cardinality(DOMAIN store) = 2
    /\ usedBytes = maxBytes

\* C7 as stated: after a set of a single value larger than maxBytes the new
\* entry is the sole resident of the cache.
OversizedSetSoleResident ==
    (call.op = "set" /\ CallSize > maxBytes) => DOMAIN store = {CallKey}

\* C7 amended: after a set of a single value larger than maxBytes every entry,
\* the new one included (evicted last), is gone: the table and the list are
\* empty and usedBytes is 0.
OversizedSetEmptiesCache ==
    (call.op = "set" /\ CallSize > maxBytes) =>
        /\ DOMAIN store = {}
        /\ lru.head = NULL /\ lru.tail = NULL
        /\ usedBytes = 0
        /\ ret.evicted # <<>>
        /\ ret.evicted[Len(ret.evicted)] = CallKey

OversizedSetEmptiesCacheWitness ==
    /\ call.op = "set"
    /\ CallSize > maxBytes
    /\ Len(ret.evicted) >= 3

\* C8: in every state between operations usedBytes <= maxBytes; a set that
\* overshoots evicts until this holds, emptying the cache if necessary.
BudgetRespected == usedBytes <= maxBytes

BudgetRespectedWitness ==
    /\ call.op = "set"
    /\ Len(ret.evicted) >= 2
    /\ DOMAIN store = {CallKey}
    /\ usedBytes <= maxBytes

\* C10: delete of a key that is not in the entry table returns false and leaves
\* usedBytes, the entry table and the recency list unchanged.
DeleteMissingNoEffect ==
    [][ (call'.op = "delete" /\ CallKey' \notin DOMAIN store) =>
            /\ ~ret'.ok
            /\ UNCHANGED <<store, lru, usedBytes>> ]_vars

DeleteMissingNoEffectWitness ==
    /\ call.op = "delete"
    /\ ~ret.ok
    /\ CallKey \notin DOMAIN store
    /\ Cardinality(DOMAIN store) >= 2

\* C3 as stated: once the expiry time of the latest set(ns, k) with a ttl has
\* come, get(ns, k) returns none and has(ns, k) false; and neither reports an
\* entry whose expiresAt is <= the current time.
ExpiredNeverReported ==
    [][ call'.op \in {"get", "has"} =>
            /\ (lastSet[CallPair'].live /\ Expired(lastSet[CallPair'], now)) => ~ret'.ok
            /\ (CallKey' \in DOMAIN store /\ Expired(store[CallKey'], now)) => ~ret'.ok ]_vars

\* C6 as stated: clearNamespace(ns1) leaves every entry set under another
\* namespace in the table, with its value and expiry.
ClearLeavesOtherNamespaces ==
    [][ call'.op = "clearNamespace" =>
            \A p \in Pairs :
                (lastSet[p].live /\ p[1] # call'.ns) =>
                    /\ makeFullKey(p[1], p[2]) \in DOMAIN store'
                    /\ store'[makeFullKey(p[1], p[2])] = store[makeFullKey(p[1], p[2])] ]_vars

\* C9 as stated: get(ns, k) returns the normalized bytes of the latest
\* set(ns, k, v) while the entry it wrote is in the table and unexpired.
GetReturnsLatestSet ==
    [][ ( /\ call'.op = "get"
          /\ lastSet[CallPair'].live
          /\ ~Expired(lastSet[CallPair'], now) )
        => (ret'.ok /\ ret'.value = lastSet[CallPair'].value) ]_vars

\* C11 as stated: set, delete, get and has on one (ns, key) pair never read,
\* overwrite or remove the entry another pair wrote (an entry evicted for the
\* budget aside).
PairsNeverCollide ==
    [][ call'.op \in {"set", "get", "has", "delete"} =>
            /\ \A q \in Pairs \ {CallPair'} :
                   LET f == makeFullKey(q[1], q[2])
                   IN  (lastSet[q].live /\ f \notin Range(ret'.evicted)) =>
                           /\ f \in DOMAIN store'
                           /\ store'[f] = store[f]
            /\ (call'.op \in {"get", "has"} /\ ret'.ok) => lastSet[CallPair'].live ]_vars

\* C13 as stated: clearNamespace(ns) removes every entry set under ns, and the
\* count it returns is the number of entries of ns that were in the table.
ClearCountsOwnEntries ==
    [][ call'.op = "clearNamespace" =>
            LET own == { makeFullKey(p[1], p[2]) :
                           p \in { q \in Pairs : q[1] = call'.ns /\ lastSet[q].live } }
            IN  /\ own \cap DOMAIN store' = {}
                /\ ret'.count = Cardinality(own) ]_vars

\* the sum of size over the entries of s with a key in S
RECURSIVE SizeOf(_, _)
SizeOf(s, S) ==
    IF S = {} THEN 0
    ELSE LET f == CHOOSE g \in S : TRUE IN s[f].size + SizeOf(s, S \ {f})

ExpiredKeys == { f \in DOMAIN store : Expired(store[f], now) }

\* C12: while the sweeper runs, an entry with a ttl whose expiry time the clock
\* reaches is eventually out of the table (or set again); and every sweep pass
\* removes all entries expired at its time from the table and the list and
\* reduces usedBytes by their sizes, so the first pass at or after the expiry
\* is the one that removes it.
SweepEventuallyRemoves ==
    /\ [][ call'.op = "sweepExpired" =>
              /\ ExpiredKeys \cap DOMAIN store' = {}
              /\ ExpiredKeys \cap Range(ListOrder(lru')) = {}
              /\ usedBytes' = usedBytes - SizeOf(store, ExpiredKeys)
              /\ ret'.count = Cardinality(ExpiredKeys) ]_vars
    /\ \A f \in FullKeys :
           (sweeper /\ f \in DOMAIN store /\ store[f].expiresAt \in 1..MaxTime)
               ~> (\/ ~sweeper
                   \/ f \notin DOMAIN store
                   \/ store[f].expiresAt \notin 1..MaxTime)

\* a sweep of the running sweeper removed an entry and left another
SweepEventuallyRemovesWitness ==
    /\ sweeper
    /\ call.op = "sweepExpired"
    /\ ret.count >= 1
    /\ DOMAIN store # {}

\* C14: shutdown stops the sweeper and touches nothing else; once stopped the
\* sweeper stays stopped and no sweep pass runs, so an entry leaves the table
\* only through get, has, delete, clearNamespace or set; a second shutdown
\* changes nothing.
ShutdownStopsSweeper ==
    [][ /\ call'.op = "shutdown" =>
              /\ ~sweeper'
              /\ store' = store /\ lru' = lru /\ usedBytes' = usedBytes
        /\ ~sweeper =>
              /\ ~sweeper'
              /\ call'.op # "sweepExpired"
              /\ (DOMAIN store \ DOMAIN store' # {}) =>
                     call'.op \in {"get", "has", "delete", "clearNamespace", "set"}
              /\ call'.op = "shutdown" => <<store, lru, usedBytes, sweeper>>' =
                                             <<store, lru, usedBytes, sweeper>> ]_vars

\* the sweeper is stopped, an expired entry is still in the table, and a second
\* shutdown has just been called
ShutdownStopsSweeperWitness ==
    /\ ~sweeper
    /\ call.op = "shutdown"
    /\ ExpiredKeys # {}

\* C15: a sweep pass removes exactly the entries whose expiresAt is set and
\* <= the time of the pass, all of them in the one pass; the entries that stay
\* are unchanged and keep their relative recency order; an entry set with no
\* ttl or a ttl <= 0 gets no expiry time and is never removed by a pass.
SweepRemovesExactlyExpired ==
    [][ /\ call'.op = "sweepExpired" =>
              /\ DOMAIN store' = DOMAIN store \ ExpiredKeys
              /\ \A f \in DOMAIN store' : store'[f] = store[f]
              /\ ListOrder(lru') = SelectSeq(ListOrder(lru), LAMBDA f : f \notin ExpiredKeys)
              /\ \A q \in Pairs :
                     (lastSet[q].live /\ lastSet[q].expiresAt = 0) =>
                         makeFullKey(q[1], q[2]) \in DOMAIN store'
        /\ (/\ call'.op = "set"
            /\ (call'.opts = <<>> \/ call'.opts[1] <= 0)
            /\ CallKey' \in DOMAIN store') =>
               /\ store'[CallKey'].expiresAt = 0
               /\ lastSet'[CallPair'].expiresAt = 0 ]_vars

\* a pass removed an expired entry and left two, one of them with a ttl still
\* running
SweepRemovesExactlyExpiredWitness ==
    /\ call.op = "sweepExpired"
    /\ ret.count >= 1
    /\ Cardinality(DOMAIN store) >= 2
    /\ \E f \in DOMAIN store : store[f].expiresAt > now
    /\ \E f \in DOMAIN store : store[f].expiresAt = 0

\* the bytes a set released by eviction: each victim's size, the written entry's
\* new size when it is itself a victim
RECURSIVE EvictedBytes(_, _, _, _)
EvictedBytes(s, evicted, fullKey, newSize) ==
    IF evicted = <<>> THEN 0
    ELSE (IF Head(evicted) = fullKey THEN newSize ELSE s[Head(evicted)].size)
         + EvictedBytes(s, Tail(evicted), fullKey, newSize)

\* the expiry time a set call asks for: now + ttl when ttl > 0, else never
CallExpiresAt == IF call.opts # <<>> /\ call.opts[1] > 0 THEN now + call.opts[1] ELSE 0

\* C16: set on a key already in the entry table, expired or not, replaces the
\* entry in place: the entry count does not grow, usedBytes changes by
\* newSize - oldSize before eviction, the entry becomes the most recently used
\* with the others in their old order, and its expiry time follows from the new
\* call's ttl alone.
SetReplacesInPlace ==
    [][ (call'.op = "set" /\ ret'.prior # "none") =>
            \A k \in {CallKey'}, buf \in {Normalize(call'.value)} :
                /\ k \in DOMAIN store
                /\ Cardinality(DOMAIN store') <= Cardinality(DOMAIN store)
                /\ usedBytes' + EvictedBytes(store, ret'.evicted, k, Len(buf))
                       = usedBytes + Len(buf) - store[k].size
                /\ ListOrder(lru') = Live(Touch(ListOrder(lru), k), store')
                /\ IF k \in DOMAIN store'
                   THEN /\ lru'.head = k
                        /\ store'[k].value = buf
                        /\ store'[k].size = Len(buf)
                        /\ store'[k].lruNode = store[k].lruNode
                        /\ store'[k].expiresAt = CallExpiresAt'
                   ELSE k \in Range(ret'.evicted) ]_vars

\* a set without ttl has just replaced an entry that had expired and was still
\* in the table, next to another entry: the key now never expires
SetReplacesInPlaceWitness ==
    /\ call.op = "set"
    /\ ret.prior = "expired"
    /\ call.opts = <<>>
    /\ CallKey \in DOMAIN store
    /\ store[CallKey].expiresAt = 0
    /\ Cardinality(DOMAIN store) >= 2

\* the last i identities of a recency order, least recently used first
LruSuffix(order, i) == [j \in 1..i |-> order[Len(order) - j + 1]]

\* C17: a set that leaves usedBytes <= maxBytes, exactly maxBytes included,
\* evicts nothing; otherwise the victims are the shortest least-recently-used
\* suffix of the recency list whose removal brings usedBytes to maxBytes or
\* below, and nothing else leaves the table.
EvictsNoMoreThanNeeded ==
    [][ call'.op = "set" =>
            \A k \in {CallKey'}, buf \in {Normalize(call'.value)},
               order \in {Touch(ListOrder(lru), CallKey')} :
                LET written == usedBytes + Len(buf)
                                   - (IF k \in DOMAIN store THEN store[k].size ELSE 0)
                    n == Len(ret'.evicted)
                    Left(i) == written - EvictedBytes(store, LruSuffix(order, i), k, Len(buf))
                IN  /\ written <= maxBytes =>
                           /\ n = 0
                           /\ usedBytes' = written
                    /\ n <= Len(order)
                    /\ ret'.evicted = LruSuffix(order, n)
                    /\ \A i \in 0..(n - 1) : Left(i) > maxBytes
                    /\ Left(n) <= maxBytes
                    /\ usedBytes' = Left(n)
                    /\ DOMAIN store' = (DOMAIN store \cup {k}) \ Range(ret'.evicted) ]_vars

\* a set of a new key went over the budget and evicted one entry, the least
\* recently used, leaving the other older entry and the new one
EvictsNoMoreThanNeededWitness ==
    /\ call.op = "set"
    /\ ret.prior = "none"
    /\ Len(ret.evicted) = 1
    /\ Cardinality(DOMAIN store) = 2
    /\ CallKey \in DOMAIN store

\* C18: when get or has finds an entry that is present but expired, the call
\* itself removes that entry from the table and the recency list, subtracts
\* its size from usedBytes and returns not-found; every other entry and the
\* relative recency order of the others are unchanged.
LazyExpiryPurges ==
    [][ (call'.op \in {"get", "has"} /\ ret'.prior = "expired") =>
            \A k \in {CallKey'} :
                /\ ~ret'.ok
                /\ ret'.value = NULL
                /\ k \in DOMAIN store
                /\ Expired(store[k], now)
                /\ DOMAIN store' = DOMAIN store \ {k}
                /\ \A f \in DOMAIN store' : store'[f] = store[f]
                /\ usedBytes' = usedBytes - store[k].size
                /\ ListOrder(lru') = SelectSeq(ListOrder(lru), LAMBDA f : f # k)
                /\ lru'.next[k] = NULL /\ lru'.prev[k] = NULL ]_vars

\* a get or has has just found its entry expired and purged it; two other
\* entries are still in the table
LazyExpiryPurgesWitness ==
    /\ call.op \in {"get", "has"}
    /\ ret.prior = "expired"
    /\ CallKey \notin DOMAIN store
    /\ Cardinality(DOMAIN store) = 2

\* C19: budget eviction picks its victims by recency alone and ignores expiry:
\* every entry a set leaves in the table was nearer the head than every victim,
\* whether expired or not; an expired entry that is not a victim stays in the
\* table unchanged, and it counts in the stats key count and in usedBytes.
EvictionIgnoresExpiry ==
    [][ call'.op = "set" =>
            \A k \in {CallKey'}, order \in {Touch(ListOrder(lru), CallKey')} :
                /\ \A v \in Range(ret'.evicted) :
                       \A f \in DOMAIN store' : Before(order, f, v)
                /\ \A e \in ExpiredKeys \ ({k} \cup Range(ret'.evicted)) :
                       /\ e \in DOMAIN store'
                       /\ store'[e] = store[e]
                /\ stats(Current').keys =
                       Cardinality(DOMAIN store' \ ExpiredKeys') + Cardinality(ExpiredKeys')
                /\ stats(Current').usedBytes =
                       SizeOf(store', DOMAIN store' \ ExpiredKeys') + SizeOf(store', ExpiredKeys') ]_vars

\* a set went over the budget and evicted an unexpired least recently used
\* entry while an expired entry nearer the head stayed in the table
EvictionIgnoresExpiryWitness ==
    /\ call.op = "set"
    /\ \E i \in 1..Len(ret.evicted) : ~ret.victimExpired[i]
    /\ ExpiredKeys \ {CallKey} # {}
    /\ stats(Current).keys = Cardinality(DOMAIN store)
    /\ CallKey \in DOMAIN store

\* C20: after every operation the recency list is a well-formed doubly linked
\* list: head is null iff tail is null iff the table is empty; head.prev and
\* tail.next are null; following next from head visits every node exactly once
\* and ends at tail; n.next.prev = n for every node but the tail (and
\* n.prev.next = n for every node but the head); a node that is not in the list
\* has both links null.
ListWellFormed ==
    /\ (lru.head = NULL) <=> (lru.tail = NULL)
    /\ (lru.head = NULL) <=> (DOMAIN store = {})
    /\ lru.head # NULL => (lru.prev[lru.head] = NULL /\ lru.next[lru.tail] = NULL)
    /\ LET order == ListOrder(lru)
       IN  /\ Len(order) <= Cardinality(FullKeys)
           /\ \A i, j \in 1..Len(order) : order[i] = order[j] => i = j
           /\ Range(order) = DOMAIN store
           /\ order # <<>> => order[Len(order)] = lru.tail
    /\ \A n \in DOMAIN store :
           /\ n # lru.tail => (lru.next[n] # NULL /\ lru.prev[lru.next[n]] = n)
           /\ n # lru.head => (lru.prev[n] # NULL /\ lru.next[lru.prev[n]] = n)
    /\ \A n \in FullKeys \ DOMAIN store : lru.next[n] = NULL /\ lru.prev[n] = NULL

\* a get has just moved a middle or tail node of a three-node list to the head
ListWellFormedWitness ==
    /\ call.op = "get"
    /\ ret.ok
    /\ Cardinality(DOMAIN store) = 3
    /\ lru.head = CallKey
    /\ \E f \in DOMAIN store : lru.prev[f] # NULL /\ lru.next[f] # NULL

====
